---- MODULE Spec2Model ----
(***************************************************************************)
(* FileLock (Markkreel/Encryption-CLI): the secure container pipeline.     *)
(*                                                                         *)
(*   src/src/filelock.py     encrypt_file / decrypt_file  ('.flk')         *)
(*   src/src/compression.py  compress_file / decompress_file ('.flc')      *)
(*   src/src/main.py         secure_file / restore_file                    *)
(*                                                                         *)
(* A file system is a function from paths to byte strings.  A path is the  *)
(* sequence of its name and its dotted suffixes ("a.flk.flc" is            *)
(* <<"a", ".flk", ".flc">>), a byte string is a sequence over 0..255.      *)
(* Every function of the program is an operator from the file system and   *)
(* the arguments to a result record (new file system, exception, printed   *)
(* lines, callback invocations, paths written); every action is one call.  *)
(* Where two calls of secure_file / restore_file run at the same time      *)
(* (SpecConcurrent), every action is one access of a call to the file      *)
(* system instead.                                                         *)
(*                                                                         *)
(* Library code is modelled by its contract:                               *)
(*   - SHA-256 by a digest of 32 bytes in which every byte of the data and *)
(*     its length count (no collision occurs among the strings of the      *)
(*     model);                                                             *)
(*   - PBKDF2 by a 32-byte key that depends on password and salt;          *)
(*   - AES-256 by a keyed permutation of 16-byte blocks, chained in CBC    *)
(*     mode with a real XOR, under PKCS#7 padding as Crypto.Util.Padding   *)
(*     computes it;                                                        *)
(*   - zlib by the zlib stream format with one stored deflate block (CMF,  *)
(*     FLG, block header, LEN, NLEN, data, Adler-32), which is byte for    *)
(*     byte what zlib emits for the 80-byte containers of the pipeline     *)
(*     (for data it can shorten zlib emits a Huffman block instead), and   *)
(*     by the decoder of zlib.decompressobj, which accepts a stream that   *)
(*     stops early; what the decoder makes of a Huffman block is left      *)
(*     open (HuffOutcomes).                                                *)
(***************************************************************************)
EXTENDS Integers, Sequences, FiniteSets, TLC

(***************************************************************************)
(* Bounds of the model.                                                    *)
(***************************************************************************)
\* number of calls in one behaviour
MaxCalls == 2
\* number of steps of the environment (a test removing or tampering a file)
MaxEnvSteps == 2
\* a tampered byte is one of the first MaxTamperSpan bytes of the payload
MaxTamperSpan == 3

(***************************************************************************)
(* Byte strings.                                                           *)
(***************************************************************************)
Rep(n, b) == [i \in 1..n |-> b]

\* data[lo:hi] of Python (0-based, hi exclusive), clipped to the string
Slice(data, lo, hi) ==
  LET h == IF hi > Len(data) THEN Len(data) ELSE hi
  IN  IF lo >= h THEN <<>> ELSE SubSeq(data, lo + 1, h)

RECURSIVE Xor(_, _)
Xor(a, b) ==
  IF a = 0 THEN b
  ELSE IF b = 0 THEN a
  ELSE (((a % 2) + (b % 2)) % 2) + 2 * Xor(a \div 2, b \div 2)

XorBlock(x, y) == [j \in 1..Len(x) |-> Xor(x[j], y[j])]

(***************************************************************************)
(* Paths.                                                                  *)
(***************************************************************************)
FLK == ".flk"
FLC == ".flc"
Suffixes == {FLK, FLC}

\* a suffix test that takes any extension for the one asked for
EndsWithAnySuffix(path, suffix) == Len(path) > 1

\* str.endswith(suffix)
EndsWith(path, suffix) == Len(path) > 0 /\ path[Len(path)] = suffix

\* the last dotted suffix of a path
LastSuffixOf(path) == IF path = <<>> THEN "" ELSE path[Len(path)]

\* file_path[:-4] for a path that ends with a four-character suffix
DropLast4(path) == SubSeq(path, 1, Len(path) - 1)

\* str(Path(file_path).with_suffix("")): the last suffix of the name is
\* removed; a name that is only a dotted word (".flc") has no suffix
WithSuffixEmpty(path) ==
  IF Len(path) > 1 /\ path[Len(path)] \in Suffixes
  THEN SubSeq(path, 1, Len(path) - 1)
  ELSE path

\* file_path.replace(".flk", ""): every occurrence is removed
ReplaceFlk(path) == SelectSeq(path, LAMBDA t : t # FLK)

(***************************************************************************)
(* The file system.                                                        *)
(***************************************************************************)
Exists(f, path) == path \in DOMAIN f

\* open(path, "wb") ... f.write(data): the file is created or replaced
WriteFile(f, path, data) ==
  [p \in (DOMAIN f) \cup {path} |-> IF p = path THEN data ELSE f[p]]

\* os.remove(path)
RemoveFile(f, path) == [p \in (DOMAIN f) \ {path} |-> f[p]]

(***************************************************************************)
(* hashlib.sha256(data).digest(): 32 bytes.                                *)
(***************************************************************************)
HashLen == 32

\* a digest that does not read the data
sha256_of_nothing(data) == [i \in 1..HashLen |-> 0]

\* byte i of the digest mixes the bytes at the offsets i, i + 32, i + 64, ...
\* and the length
HashTerm(data, i, t) ==
  LET k == i + HashLen * t
  IN  IF k <= Len(data) THEN (2 * t + 3) * (data[k] + 1) ELSE 0

sha256(data) ==
  [i \in 1..HashLen |->
     (Len(data) * i + HashTerm(data, i, 0) + HashTerm(data, i, 1)
        + HashTerm(data, i, 2) + HashTerm(data, i, 3)
        + HashTerm(data, i, 4) + HashTerm(data, i, 5)
        + HashTerm(data, i, 6) + HashTerm(data, i, 7)
        + HashTerm(data, i, 8) + HashTerm(data, i, 9)
        + HashTerm(data, i, 10) + HashTerm(data, i, 11)) % 256]

\* the sum of weight(i) * data[i] over lo..hi, modulo modulus, where weight(i)
\* is 1 or n + 1 - i
Weight(kind, i, n) == IF kind = "one" THEN 1 ELSE n + 1 - i

WTerm(data, i, hi, kind) ==
  IF i <= hi THEN Weight(kind, i, Len(data)) * data[i] ELSE 0

RECURSIVE WSum(_, _, _, _, _)
WSum(data, lo, hi, kind, modulus) ==
  IF hi - lo < 8
  THEN (WTerm(data, lo, hi, kind) + WTerm(data, lo + 1, hi, kind)
          + WTerm(data, lo + 2, hi, kind) + WTerm(data, lo + 3, hi, kind)
          + WTerm(data, lo + 4, hi, kind) + WTerm(data, lo + 5, hi, kind)
          + WTerm(data, lo + 6, hi, kind) + WTerm(data, lo + 7, hi, kind))
         % modulus
  ELSE LET mid == (lo + hi) \div 2
       IN  (WSum(data, lo, mid, kind, modulus)
              + WSum(data, mid + 1, hi, kind, modulus)) % modulus

(***************************************************************************)
(* filelock.py: key derivation, padding, the cipher.                       *)
(***************************************************************************)
SaltLen == 16
IvLen == 16
KeyLen == 32
BlockSize == 16
\* salt (16) | iv (16) | hash (32) | encrypted_data
HeaderLen == 64

\* a key derived from the salt alone
derive_key_from_salt(password, salt) ==
  [j \in 1..KeyLen |->
     (j + (IF Len(salt) = 0 THEN 0 ELSE salt[((j - 1) % Len(salt)) + 1])) % 256]

\* PBKDF2(password, salt, dkLen=32): the salt may be shorter than 16 bytes
\* when decrypt_file slices it out of a short file
derive_key(password, salt) ==
  [j \in 1..KeyLen |->
     (password + j
        + (IF Len(salt) = 0 THEN 0 ELSE salt[((j - 1) % Len(salt)) + 1])) % 256]

\* a padding that adds nothing to data that is already a multiple of 16 bytes
pad_to_multiple(data) ==
  LET padding_len == (BlockSize - (Len(data) % BlockSize)) % BlockSize
  IN  data \o Rep(padding_len, padding_len)

\* Crypto.Util.Padding.pad(data, 16)
pad(data) ==
  LET padding_len == BlockSize - (Len(data) % BlockSize)
  IN  data \o Rep(padding_len, padding_len)

\* an unpad that looks at the last byte only
UnpadOkLastByte(padded) ==
  LET n == Len(padded)
  IN  /\ n > 0
      /\ n % BlockSize = 0
      /\ padded[n] >= 1
      /\ padded[n] <= BlockSize

\* Crypto.Util.Padding.unpad(data, 16): FALSE where it raises ValueError
UnpadOk(padded) ==
  LET n == Len(padded)
      padding_len == padded[n]
  IN  /\ n > 0
      /\ n % BlockSize = 0
      /\ padding_len >= 1
      /\ padding_len <= BlockSize
      /\ \A k \in (n - padding_len + 1)..n : padded[k] = padding_len

unpad(padded) == SubSeq(padded, 1, Len(padded) - padded[Len(padded)])

\* AES under a key: a permutation of the 16-byte blocks, and its inverse
KeyByte(key, j) == (key[j] + 2 * key[j + BlockSize]) % 256
EncBlock(key, x) == [j \in 1..BlockSize |-> (x[j] + KeyByte(key, j)) % 256]
DecBlock(key, y) == [j \in 1..BlockSize |-> (y[j] + 256 - KeyByte(key, j)) % 256]

Block(data, i) == SubSeq(data, (i - 1) * BlockSize + 1, i * BlockSize)

\* AES.new(key, AES.MODE_CBC, iv).encrypt(padded_data)
RECURSIVE CbcEncUpTo(_, _, _, _)
CbcEncUpTo(key, iv, padded, n) ==
  IF n = 0 THEN <<>>
  ELSE LET before == CbcEncUpTo(key, iv, padded, n - 1)
           chain == IF n = 1 THEN iv ELSE Block(before, n - 1)
       IN  before \o EncBlock(key, XorBlock(Block(padded, n), chain))

cbc_encrypt(key, iv, padded) ==
  CbcEncUpTo(key, iv, padded, Len(padded) \div BlockSize)

\* AES.new(key, AES.MODE_CBC, iv).decrypt(encrypted_data)
RECURSIVE CbcDecUpTo(_, _, _, _)
CbcDecUpTo(key, iv, enc, n) ==
  IF n = 0 THEN <<>>
  ELSE LET chain == IF n = 1 THEN iv ELSE Block(enc, n - 1)
       IN  CbcDecUpTo(key, iv, enc, n - 1)
             \o XorBlock(DecBlock(key, Block(enc, n)), chain)

cbc_decrypt(key, iv, enc) == CbcDecUpTo(key, iv, enc, Len(enc) \div BlockSize)

\* AES.new raises ValueError for an IV that is not 16 bytes, decrypt for
\* data that is not a multiple of the block size
CipherAccepts(iv, enc) == Len(iv) = IvLen /\ Len(enc) % BlockSize = 0

(***************************************************************************)
(* zlib: compressobj(level).compress(data) + flush(), and                  *)
(* decompressobj().decompress(data) + flush().                             *)
(***************************************************************************)
\* the FLG byte zlib writes after CMF = 0x78 for a compression level
Flg(level) ==
  IF level = 1 THEN 1
  ELSE IF level <= 5 THEN 94
  ELSE IF level = 6 THEN 156
  ELSE 218

\* the Adler-32 checksum that ends a zlib stream, big-endian: a is one plus
\* the sum of the bytes, b the sum of the successive values of a
adler32(data) ==
  LET a == (1 + WSum(data, 1, Len(data), "one", 65521)) % 65521
      b == (Len(data) + WSum(data, 1, Len(data), "down", 65521)) % 65521
  IN  <<b \div 256, b % 256, a \div 256, a % 256>>

zlib_compress(data, level) ==
  LET n == Len(data)
  IN  <<120, Flg(level), 1, n % 256, n \div 256,
        (65535 - n) % 256, (65535 - n) \div 256>>
        \o data \o adler32(data)

\* What the decoder does with a block that is not a stored block (only a
\* changed stream has one): the bytes that follow are read as Huffman codes,
\* which ends in zlib.error, in an end of the block without more output, or
\* in output that is not the original.
HuffOutcomes == {"error", "end", "junk"}

\* huff: the stream has such a block
Inflated(out) == [err |-> FALSE, out |-> out, huff |-> FALSE]
InflateError == [err |-> TRUE, out |-> <<>>, huff |-> FALSE]
Huffman(r) == [r EXCEPT !.huff = TRUE]

\* the deflate blocks from offset pos on; a stream that stops early is not
\* an error for a decompressobj, whatever was decoded so far is returned
RECURSIVE Inflate(_, _, _, _)
Inflate(z, pos, out, huff) ==
  IF pos >= Len(z) THEN Inflated(out)
  ELSE
    LET h == z[pos + 1]
        btype == (h \div 2) % 4
        start == pos + 5
        len == z[pos + 2] + 256 * z[pos + 3]
        nlen == z[pos + 4] + 256 * z[pos + 5]
        out2 == out \o Slice(z, start, start + len)
        after == start + len
    IN  IF btype = 3 THEN InflateError
        ELSE IF btype # 0
          THEN CASE huff = "error" -> Huffman(InflateError)
                 [] huff = "end" -> Huffman(Inflated(out))
                 [] OTHER -> Huffman(Inflated(out \o <<0>>))
        ELSE IF Len(z) - (pos + 1) < 4 THEN Inflated(out)
        ELSE IF len + nlen # 65535 THEN InflateError
        ELSE IF Len(z) - start < len THEN Inflated(out2)
        ELSE IF h % 2 = 0 THEN Inflate(z, after, out2, huff)
        ELSE IF Len(z) - after < 4 THEN Inflated(out2)
        ELSE IF Slice(z, after, after + 4) = adler32(out2) THEN Inflated(out2)
        ELSE InflateError

\* the zlib header check: CM = 8, CINFO <= 7, FCHECK, no preset dictionary
zlib_decompress(z, huff) ==
  IF Len(z) < 2 THEN Inflated(<<>>)
  ELSE IF \/ z[1] % 16 # 8
          \/ z[1] \div 16 > 7
          \/ (z[1] * 256 + z[2]) % 31 # 0
          \/ (z[2] \div 32) % 2 = 1
    THEN InflateError
  ELSE Inflate(z, 2, <<>>, huff)

(***************************************************************************)
(* Results of a call: the file system it leaves, the exception it raises   *)
(* (type "none" when it returns), the lines it printed, the invocations of *)
(* the progress callback and the paths it wrote, in order.                 *)
(***************************************************************************)
NoExc == [type |-> "none", msg |-> "", cause |-> "none"]
Exc(type, msg, cause) == [type |-> type, msg |-> msg, cause |-> cause]

Result(f, exc, printed, cbs, wrote) ==
  [fs |-> f, exc |-> exc, printed |-> printed, cbs |-> cbs, wrote |-> wrote]

Raised(r) == r.exc.type # "none"

\* the progress callback a caller passes: None, one that records its
\* arguments, one that raises
Callbacks == {"none", "records", "raises"}

(***************************************************************************)
(* src/src/filelock.py                                                     *)
(***************************************************************************)
\* an encrypt_file that does not look for a file at its output path
encrypt_file_overwriting(f, file_path, password, salt, iv) ==
  LET encrypted_file_path == file_path \o <<FLK>>
  IN  IF ~Exists(f, file_path)
        THEN Result(f, NoExc, <<"Error: File not found">>, <<>>, <<>>)
      ELSE Result(WriteFile(f, encrypted_file_path,
                            salt \o iv \o sha256(f[file_path])
                              \o cbc_encrypt(derive_key(password, salt), iv,
                                             pad(f[file_path]))),
                  NoExc, <<"File encrypted successfully">>, <<>>,
                  <<encrypted_file_path>>)

\* encrypt_file(file_path, password), salt and iv being what os.urandom gave
encrypt_file(f, file_path, password, salt, iv) ==
  LET encrypted_file_path == file_path \o <<FLK>>
      key == derive_key(password, salt)
      data == f[file_path]
      data_hash == sha256(data)
      padded_data == pad(data)
      encrypted_data == cbc_encrypt(key, iv, padded_data)
  IN  IF Exists(f, encrypted_file_path)
        THEN Result(f, NoExc, <<"Error: File already exists.">>, <<>>, <<>>)
      ELSE IF ~Exists(f, file_path)
        THEN Result(f, NoExc, <<"Error: File not found">>, <<>>, <<>>)
      ELSE Result(WriteFile(f, encrypted_file_path,
                            salt \o iv \o data_hash \o encrypted_data),
                  NoExc, <<"File encrypted successfully">>, <<>>,
                  <<encrypted_file_path>>)

\* decrypt_file(file_path, password)
decrypt_file(f, file_path, password) ==
  LET decrypted_file_path == ReplaceFlk(file_path)
      data == f[file_path]
      salt == Slice(data, 0, SaltLen)
      iv == Slice(data, SaltLen, SaltLen + IvLen)
      hash_stored == Slice(data, SaltLen + IvLen, HeaderLen)
      encrypted_data == Slice(data, HeaderLen, Len(data))
      key == derive_key(password, salt)
      decrypted_data == cbc_decrypt(key, iv, encrypted_data)
      original_data == unpad(decrypted_data)
      hash_computed == sha256(original_data)
  IN  IF ~EndsWith(file_path, FLK)
        THEN Result(f, NoExc,
                    <<"Error: File does not have the .flk extension.">>,
                    <<>>, <<>>)
      ELSE IF Exists(f, decrypted_file_path)
        THEN Result(f, NoExc, <<"Error: File already exists.">>, <<>>, <<>>)
      ELSE IF ~Exists(f, file_path)
        THEN Result(f, NoExc, <<"Error: File not found">>, <<>>, <<>>)
      ELSE IF ~CipherAccepts(iv, encrypted_data) \/ ~UnpadOk(decrypted_data)
        THEN Result(f, NoExc,
                    <<"Error: Invalid padding or corrupted data">>,
                    <<>>, <<>>)
      ELSE IF hash_stored # hash_computed
        THEN Result(IF Exists(f, decrypted_file_path)
                      THEN RemoveFile(f, decrypted_file_path) ELSE f,
                    NoExc,
                    <<"Error: Integrity check failed - file tampered or wrong password">>,
                    <<>>, <<>>)
      ELSE Result(WriteFile(f, decrypted_file_path, original_data),
                  NoExc, <<"File decrypted successfully">>, <<>>,
                  <<decrypted_file_path>>)

(***************************************************************************)
(* src/src/compression.py                                                  *)
(***************************************************************************)
LevelMsg == "Compression level must be between 1 and 9"
SuffixMsg == "File must have .flc extension"

\* compression_level (1) | hash (32) | compressed_data
FlcHeaderLen == 33

\* a level check that has no lower end
ValidLevelUpTo9(compression_level) == compression_level <= 9

\* 1 <= compression_level <= 9
ValidLevel(compression_level) ==
  1 <= compression_level /\ compression_level <= 9

\* a callback that is also invoked before anything is processed
CallbackCallsPerChunk(cb, done, total) == IF cb = "none" THEN <<>> ELSE << <<0, total>>, <<done, total>> >>

\* progress_callback(done, total) when one was passed
CallbackCalls(cb, done, total) ==
  IF cb = "none" THEN <<>> ELSE << <<done, total>> >>

\* a callback whose exception is swallowed
CallbackExcSwallowed(cb) == NoExc

CallbackExc(cb) ==
  IF cb = "raises" THEN Exc("CallbackError", "progress callback", "none")
  ELSE NoExc

\* compress_file(file_path, compression_level, progress_callback)
compress_file(f, file_path, compression_level, cb) ==
  LET data == f[file_path]
      data_hash == sha256(data)
      compressed_data == zlib_compress(data, compression_level)
      total_size == Len(data)
      processed_size == Len(compressed_data)
      compressed_file_path == file_path \o <<FLC>>
      written == WriteFile(f, compressed_file_path,
                           <<compression_level>> \o data_hash \o compressed_data)
      cbs == CallbackCalls(cb, processed_size, total_size)
  IN  IF ~ValidLevel(compression_level)
        THEN Result(f, Exc("ValueError", LevelMsg, "none"), <<>>, <<>>, <<>>)
      ELSE IF ~Exists(f, file_path)
        THEN Result(f, Exc("FileNotFoundError", "File not found",
                           "FileNotFoundError"), <<>>, <<>>, <<>>)
      ELSE IF cb = "raises"
        THEN Result(written, CallbackExc(cb), <<>>, cbs,
                    <<compressed_file_path>>)
      ELSE IF total_size = 0
        THEN Result(written, Exc("ZeroDivisionError", "division by zero", "none"),
                    <<"File compressed successfully">>, cbs,
                    <<compressed_file_path>>)
      ELSE Result(written, NoExc,
                  <<"File compressed successfully", "Compression ratio">>,
                  cbs, <<compressed_file_path>>)

\* decompress_file(file_path, progress_callback)
decompress_file(f, file_path, cb, huff) ==
  LET data == f[file_path]
      original_hash == Slice(data, 1, FlcHeaderLen)
      compressed_data == Slice(data, FlcHeaderLen, Len(data))
      inflated == zlib_decompress(compressed_data, huff)
      decompressed_data == inflated.out
      computed_hash == sha256(decompressed_data)
      output_file_path == WithSuffixEmpty(file_path)
      written == WriteFile(f, output_file_path, decompressed_data)
      cbs == CallbackCalls(cb, Len(decompressed_data), Len(decompressed_data))
  IN  IF ~EndsWith(file_path, FLC)
        THEN Result(f, Exc("ValueError", SuffixMsg, "none"), <<>>, <<>>, <<>>)
      ELSE IF ~Exists(f, file_path)
        THEN Result(f, Exc("FileNotFoundError", "File not found",
                           "FileNotFoundError"), <<>>, <<>>, <<>>)
      ELSE IF inflated.err
        THEN Result(f, Exc("ValueError", "Failed to decompress data",
                           "zlib.error"), <<>>, <<>>, <<>>)
      ELSE IF computed_hash # original_hash
        THEN Result(f, Exc("ValueError",
                           "File integrity check failed. The file may be corrupted.",
                           "none"), <<>>, <<>>, <<>>)
      ELSE IF cb = "raises"
        THEN Result(written, CallbackExc(cb), <<>>, cbs, <<output_file_path>>)
      ELSE Result(written, NoExc, <<"File decompressed successfully">>, cbs,
                  <<output_file_path>>)

\* whether the decoder meets a block that is not a stored block in the file
HuffChoices(f, file_path) ==
  IF /\ Exists(f, file_path)
     /\ zlib_decompress(Slice(f[file_path], FlcHeaderLen, Len(f[file_path])),
                         "error").huff
  THEN HuffOutcomes
  ELSE {"error"}

(***************************************************************************)
(* src/src/main.py                                                         *)
(***************************************************************************)
\* an except clause that wraps the error and leaves the intermediate file
WrapWithoutCleanup(r, intermediate, msg, printed, wrote) ==
  Result(r.fs, Exc("ValueError", msg, r.exc.type), printed, r.cbs, wrote)

\* the except clause of both functions: the intermediate file is removed if
\* it exists and the error is wrapped in a ValueError
CleanupAndWrap(r, intermediate, msg, printed, wrote) ==
  Result(IF Exists(r.fs, intermediate) THEN RemoveFile(r.fs, intermediate)
         ELSE r.fs,
         Exc("ValueError", msg, r.exc.type), printed, r.cbs, wrote)

\* a secure_file whose os.remove is given the input path
secure_file_removing_input(f, file_path, password, compression_level, cb, salt, iv) ==
  LET enc == encrypt_file(f, file_path, password, salt, iv)
      encrypted_file == file_path \o <<FLK>>
      com == compress_file(enc.fs, encrypted_file, compression_level, cb)
      printed == enc.printed \o com.printed
      wrote == enc.wrote \o com.wrote
  IN  IF ~ValidLevel(compression_level)
        THEN Result(f, Exc("ValueError", LevelMsg, "none"), <<>>, <<>>, <<>>)
      ELSE IF Raised(com)
        THEN CleanupAndWrap(com, encrypted_file, "Failed to secure file",
                            printed, wrote)
      ELSE Result(RemoveFile(com.fs, file_path), NoExc, printed,
                  com.cbs, wrote)

\* secure_file(file_path, password, compression_level, progress_callback)
secure_file(f, file_path, password, compression_level, cb, salt, iv) ==
  LET enc == encrypt_file(f, file_path, password, salt, iv)
      encrypted_file == file_path \o <<FLK>>
      com == compress_file(enc.fs, encrypted_file, compression_level, cb)
      printed == enc.printed \o com.printed
      wrote == enc.wrote \o com.wrote
  IN  IF ~ValidLevel(compression_level)
        THEN Result(f, Exc("ValueError", LevelMsg, "none"), <<>>, <<>>, <<>>)
      ELSE IF Raised(com)
        THEN CleanupAndWrap(com, encrypted_file, "Failed to secure file",
                            printed, wrote)
      ELSE Result(RemoveFile(com.fs, encrypted_file), NoExc, printed,
                  com.cbs, wrote)

\* restore_file(file_path, password, progress_callback)
restore_file(f, file_path, password, cb, huff) ==
  LET decompressed_file == DropLast4(file_path)
      dec == decompress_file(f, file_path, cb, huff)
      dcr == decrypt_file(dec.fs, decompressed_file, password)
      printed == dec.printed \o dcr.printed
      wrote == dec.wrote \o dcr.wrote
      missing == [dcr EXCEPT !.exc = Exc("FileNotFoundError", "os.remove",
                                         "none"),
                             !.cbs = dec.cbs]
  IN  IF ~EndsWith(file_path, FLC)
        THEN Result(f, Exc("ValueError", SuffixMsg, "none"), <<>>, <<>>, <<>>)
      ELSE IF Raised(dec)
        THEN CleanupAndWrap(dec, decompressed_file, "Failed to restore file",
                            dec.printed, dec.wrote)
      ELSE IF ~Exists(dcr.fs, decompressed_file)
        THEN CleanupAndWrap(missing, decompressed_file,
                            "Failed to restore file", printed, wrote)
      ELSE Result(RemoveFile(dcr.fs, decompressed_file), NoExc, printed,
                  dec.cbs, wrote)

(***************************************************************************)
(* The two container formats, as the functions above lay them out.         *)
(***************************************************************************)
\* the crypto container of the bytes data under a password, a salt and an iv:
\* salt (16) | iv (16) | SHA-256(data) | AES-256-CBC(pad(data))
CryptoContainer(data, password, salt, iv) ==
  salt \o iv \o sha256(data)
    \o cbc_encrypt(derive_key(password, salt), iv, pad(data))

\* the compression container of the bytes data at a level:
\* level (1) | SHA-256(data) | deflate(data)
CompressionContainer(data, level) ==
  <<level>> \o sha256(data) \o zlib_compress(data, level)

(***************************************************************************)
(* The state: the file system; for every file the call that wrote it and   *)
(* what it wrote (history kept to state properties about a container and   *)
(* its origin); the call that has just ended with what it was given and    *)
(* what it did, until the caller goes on; the invocations that are under    *)
(* way at the same time, when the caller runs several (none otherwise).     *)
(***************************************************************************)
VARIABLES fs, made, last, calls, envsteps, run

vars == <<fs, made, last, calls, envsteps, run>>

\* inputs of the calls
\* the password the files are secured with, and what a caller may type when
\* restoring
SecurePasswords == {3}
Passwords == {3, 8}
Levels == {0, 6, 10}
Contents == {<<>>, <<5>>}
\* what os.urandom(16) returns for the salt and for the iv
Randoms == {<<Rep(SaltLen, 9), Rep(IvLen, 4)>>}
\* a changed byte is the old one plus one of these, modulo 256
TamperDeltas == {1, 62}

\* the disk of the user: a file, or a file next to an older file of its name
\* plus ".flk"
UserDisks ==
  {[p \in {<<"a">>} |-> c] : c \in Contents}
    \cup {[p \in {<<"a">>, <<"a", FLK>>} |-> <<5>>]}

\* the paths a call is given: the files on disk and three paths that may
\* be missing
KnownPaths == {<<"a">>, <<"a", FLK>>, <<"a", FLC>>}
CallPaths == (DOMAIN fs) \cup KnownPaths

Producers == {"encrypt_file", "compress_file", "secure_file"}

Range(seq) == {seq[i] : i \in 1..Len(seq)}

\* where a file on disk comes from: the call that wrote it, whether that call
\* returned normally, its argument, the bytes of the argument file and the
\* bytes written
Origin(by, ok, src, password, f, content) ==
  [by |-> by, ok |-> ok, src |-> src, password |-> password,
   had |-> Exists(f, src),
   plain |-> IF Exists(f, src) THEN f[src] ELSE <<>>,
   content |-> content]

NoOrigin == [by |-> "none", ok |-> FALSE, src |-> <<>>, password |-> 0,
             had |-> FALSE, plain |-> <<>>, content |-> <<>>]

UserMade(f) == [p \in DOMAIN f |-> Origin("user", TRUE, p, 0, f, f[p])]

\* the origins after a call op(path, password) on disk f with result r
MadeAfter(op, path, password, f, r, before) ==
  [p \in DOMAIN r.fs |->
     IF p \in Range(r.wrote)
     THEN Origin(op, r.exc = NoExc, path, password, f, r.fs[p])
     ELSE before[p]]

NoCall == [op |-> "none", path |-> <<>>, password |-> 0, level |-> 0,
           cb |-> "none", pre |-> <<>>, input |-> NoOrigin, exc |-> NoExc,
           printed |-> <<>>, cbs |-> <<>>, wrote |-> <<>>]

\* no invocation is under way
NoRun == <<>>

\* the disk before the first call
Init ==
  /\ fs \in UserDisks
  /\ made = UserMade(fs)
  /\ last = NoCall
  /\ calls = 0
  /\ envsteps = 0
  /\ run = NoRun

\* one call of a function of the program, with result r
Called(op, path, password, level, cb, r) ==
  /\ last.op = "none"
  /\ calls < MaxCalls
  /\ calls' = calls + 1
  /\ fs' = r.fs
  /\ made' = MadeAfter(op, path, password, fs, r, made)
  /\ last' = [op |-> op, path |-> path, password |-> password,
              level |-> level, cb |-> cb, pre |-> fs,
              input |-> IF Exists(fs, path) THEN made[path] ELSE NoOrigin,
              exc |-> r.exc, printed |-> r.printed, cbs |-> r.cbs,
              wrote |-> r.wrote]
  /\ UNCHANGED <<envsteps, run>>

CallEncrypt ==
  \E path \in CallPaths, password \in SecurePasswords, rnd \in Randoms :
    Called("encrypt_file", path, password, 0, "none",
           encrypt_file(fs, path, password, rnd[1], rnd[2]))

CallDecrypt ==
  \E path \in CallPaths, password \in Passwords :
    Called("decrypt_file", path, password, 0, "none",
           decrypt_file(fs, path, password))

CallCompress ==
  \E path \in CallPaths, level \in Levels, cb \in Callbacks :
    Called("compress_file", path, 0, level, cb,
           compress_file(fs, path, level, cb))

CallDecompress ==
  /\ last.op = "none"
  /\ \E path \in CallPaths : \E huff \in HuffChoices(fs, path) :
       \E cb \in Callbacks :
         Called("decompress_file", path, 0, 0, cb,
                decompress_file(fs, path, cb, huff))

CallSecure ==
  \E path \in CallPaths, password \in SecurePasswords, level \in Levels,
     cb \in Callbacks, rnd \in Randoms :
    Called("secure_file", path, password, level, cb,
           secure_file(fs, path, password, level, cb, rnd[1], rnd[2]))

CallRestore ==
  /\ last.op = "none"
  /\ \E path \in CallPaths : \E huff \in HuffChoices(fs, path) :
       \E password \in Passwords, cb \in Callbacks :
         Called("restore_file", path, password, 0, cb,
                restore_file(fs, path, password, cb, huff))

\* the caller has seen how the call ended and goes on
Continue ==
  /\ last.op # "none"
  /\ last' = NoCall
  /\ UNCHANGED <<fs, made, calls, envsteps, run>>

\* a step of the environment between two calls
EnvStep(f) ==
  /\ last.op = "none"
  /\ envsteps < MaxEnvSteps
  /\ envsteps' = envsteps + 1
  /\ fs' = f
  /\ made' = [p \in DOMAIN f |-> made[p]]
  /\ UNCHANGED <<last, calls, run>>

\* os.remove(path) by the user, as the tests do between secure and restore
Remove == \E path \in DOMAIN fs : EnvStep(RemoveFile(fs, path))

\* the offset at which the payload of a container starts
PayloadOffset(by) ==
  IF by = "encrypt_file" THEN HeaderLen ELSE FlcHeaderLen

\* one byte of the payload of a container is changed on disk, as the
\* tampering tests do
Tamper ==
  \E path \in DOMAIN fs, d \in TamperDeltas :
    /\ made[path].by \in Producers
    /\ fs[path] = made[path].content
    /\ \E k \in 1..MaxTamperSpan :
         LET i == PayloadOffset(made[path].by) + k
         IN  /\ i <= Len(fs[path])
             /\ EnvStep([fs EXCEPT ![path][i] = (fs[path][i] + d) % 256])

Next ==
  \/ CallEncrypt
  \/ CallDecrypt
  \/ CallCompress
  \/ CallDecompress
  \/ CallSecure
  \/ CallRestore
  \/ Continue
  \/ Remove
  \/ Tamper

Spec == Init /\ [][Next]_vars

\* the calls of one layer alone: filelock.py, compression.py, main.py
NextFilelock ==
  \/ CallEncrypt
  \/ CallDecrypt
  \/ Continue
  \/ Remove
  \/ Tamper

SpecFilelock == Init /\ [][NextFilelock]_vars

NextCompression ==
  \/ CallCompress
  \/ CallDecompress
  \/ Continue
  \/ Remove
  \/ Tamper

SpecCompression == Init /\ [][NextCompression]_vars

NextMain ==
  \/ CallSecure
  \/ CallRestore
  \/ Continue
  \/ Remove

SpecMain == Init /\ [][NextMain]_vars

\* the calls of all layers on a disk that nothing else touches
NextCalls ==
  \/ CallEncrypt
  \/ CallDecrypt
  \/ CallCompress
  \/ CallDecompress
  \/ CallSecure
  \/ CallRestore
  \/ Continue

SpecCalls == Init /\ [][NextCalls]_vars

(***************************************************************************)
(* secure_file and restore_file on a disk where the user has, next to a    *)
(* file, an older file of its name plus ".flk" of any content.             *)
(***************************************************************************)
OldFlkDisks ==
  {[p \in {<<"a">>, <<"a", FLK>>} |-> IF p = <<"a">> THEN c ELSE d] :
     c \in Contents, d \in Contents}
    \cup {[p \in {<<"a">>} |-> c] : c \in Contents}

InitOldFlk ==
  /\ fs \in OldFlkDisks
  /\ made = UserMade(fs)
  /\ last = NoCall
  /\ calls = 0
  /\ envsteps = 0
  /\ run = NoRun

SpecOldFlk == InitOldFlk /\ [][NextMain]_vars

(***************************************************************************)
(* Invocations of secure_file and restore_file that run at the same time   *)
(* (threads of one caller, or two processes on one disk).  An invocation   *)
(* advances by one access to the file system at a time: a test for         *)
(* existence, the reading of a file, the writing of a file (open, write    *)
(* and close make the file appear with its bytes in one step), a removal.  *)
(* What it computes between two accesses belongs to the step of the access *)
(* before.  pc is the access it is about to make; exc is the exception     *)
(* that is on its way to the except clause, or the one the call ended      *)
(* with.                                                                   *)
(***************************************************************************)
Procs == {1, 2}

\* compression_level: int = 6
DefaultLevel == 6

RunRandom == CHOOSE rnd \in Randoms : TRUE
RunPassword == CHOOSE password \in SecurePasswords : TRUE

\* a secured artifact of the bytes data
Artifact(data) ==
  CompressionContainer(
    CryptoContainer(data, RunPassword, RunRandom[1], RunRandom[2]),
    DefaultLevel)

\* the files a disk may hold when the invocations start: two user files, an
\* older ".flk" file, and the artifacts of two earlier calls of secure_file
FullDisk ==
  [p \in {<<"a">>, <<"a", FLK>>, <<"a", FLK, FLC>>, <<"b">>,
          <<"b", FLK, FLC>>} |->
     CASE p = <<"a">> -> <<5>>
       [] p = <<"a", FLK>> -> <<5>>
       [] p = <<"a", FLK, FLC>> -> Artifact(<<>>)
       [] p = <<"b">> -> <<>>
       [] OTHER -> Artifact(<<5>>)]

\* "b" is on the disk, or it was secured and removed
ConcurrentDisks ==
  {[p \in present |-> FullDisk[p]] :
     present \in {some \in SUBSET (DOMAIN FullDisk) :
                    (<<"b">> \in some) # (<<"b", FLK, FLC>> \in some)}}

\* an invocation that has not started; pre is the disk it is started on, post
\* the disk at the moment it ends
Invocation(op, path, password, level, cb) ==
  [op |-> op, path |-> path, password |-> password, level |-> level,
   cb |-> cb, pc |-> "start", pre |-> <<>>, post |-> <<>>, data |-> <<>>,
   size |-> 0,
   exc |-> NoExc, printed |-> <<>>, wrote |-> <<>>, cbs |-> <<>>]

Invocations ==
  {Invocation("secure_file", path, RunPassword, DefaultLevel, cb) :
     path \in {<<"a">>, <<"a", FLK>>, <<"b">>}, cb \in {"none", "raises"}}
    \cup
  {Invocation("restore_file", path, password, 0, "none") :
     path \in {<<"a", FLK, FLC>>, <<"b", FLK, FLC>>, <<"a">>},
     password \in Passwords}

\* the caller starts two invocations on distinct input paths (which of two
\* invocations is the first in this list makes no difference)
InitConcurrent ==
  /\ fs \in ConcurrentDisks
  /\ made = UserMade(fs)
  /\ last = NoCall
  /\ calls = 0
  /\ envsteps = 0
  /\ \E first, second \in Invocations :
       /\ first.path # second.path
       /\ (first.op = "secure_file" \/ second.op = "restore_file")
       /\ run = [i \in Procs |->
                   [(IF i = 1 THEN first ELSE second) EXCEPT !.pre = fs]]

Terminal == {"returned", "raised"}

At(i, op, pc) == run[i].op = op /\ run[i].pc = pc

\* invocation i makes a step that leaves the disk f and itself as p
Step(i, f, p) ==
  /\ fs' = f
  /\ run' = [run EXCEPT
               ![i] = IF p.pc \in Terminal THEN [p EXCEPT !.post = f] ELSE p]
  /\ UNCHANGED <<made, last, calls, envsteps>>

Goto(p, pc) == [p EXCEPT !.pc = pc]
Says(p, line, pc) == [p EXCEPT !.pc = pc, !.printed = Append(@, line)]
Throws(p, exc, pc) == [p EXCEPT !.pc = pc, !.exc = exc]
Wrote(p, path) == [p EXCEPT !.wrote = Append(@, path)]

\* a wrapper that forgets its cause
WrappedWithoutCause(p, msg) ==
  Throws(p, Exc("ValueError", msg, "none"), "raised")

\* raise ValueError(msg) from e, e being the exception on its way
Wrapped(p, msg) == Throws(p, Exc("ValueError", msg, p.exc.type), "raised")

MissingExc == Exc("FileNotFoundError", "File not found", "FileNotFoundError")
RemoveExc == Exc("FileNotFoundError", "os.remove", "none")

\* secure_file: the check of the level
SecureStart(i) ==
  /\ At(i, "secure_file", "start")
  /\ Step(i, fs,
          IF ~ValidLevel(run[i].level)
          THEN Throws(run[i], Exc("ValueError", LevelMsg, "none"), "raised")
          ELSE Goto(run[i], "enc_exists"))

\* encrypt_file: os.path.exists(encrypted_file_path)
EncExists(i) ==
  /\ At(i, "secure_file", "enc_exists")
  /\ Step(i, fs,
          IF Exists(fs, run[i].path \o <<FLK>>)
          THEN Says(run[i], "Error: File already exists.", "com_read")
          ELSE Goto(run[i], "enc_read"))

\* encrypt_file: the input is read and encrypted
EncRead(i) ==
  /\ At(i, "secure_file", "enc_read")
  /\ Step(i, fs,
          IF ~Exists(fs, run[i].path)
          THEN Says(run[i], "Error: File not found", "com_read")
          ELSE [run[i] EXCEPT
                  !.pc = "enc_write",
                  !.data = CryptoContainer(fs[run[i].path], run[i].password,
                                           RunRandom[1], RunRandom[2])])

\* encrypt_file: the container is written
EncWrite(i) ==
  /\ At(i, "secure_file", "enc_write")
  /\ Step(i, WriteFile(fs, run[i].path \o <<FLK>>, run[i].data),
          Wrote(Says(run[i], "File encrypted successfully", "com_read"),
                run[i].path \o <<FLK>>))

\* compress_file: the encrypted file is read and compressed
ComRead(i) ==
  /\ At(i, "secure_file", "com_read")
  /\ Step(i, fs,
          IF ~Exists(fs, run[i].path \o <<FLK>>)
          THEN Throws(run[i], MissingExc, "sec_except")
          ELSE [run[i] EXCEPT
                  !.pc = "com_write",
                  !.size = Len(fs[run[i].path \o <<FLK>>]),
                  !.data = CompressionContainer(fs[run[i].path \o <<FLK>>],
                                                run[i].level)])

\* compress_file: the container is written, the callback is invoked, the
\* ratio is computed
ComWrite(i) ==
  LET p == run[i]
      artifact == p.path \o <<FLK, FLC>>
      q == [Wrote(p, artifact) EXCEPT
              !.cbs = CallbackCalls(p.cb, Len(p.data) - FlcHeaderLen, p.size)]
  IN  /\ At(i, "secure_file", "com_write")
      /\ Step(i, WriteFile(fs, artifact, p.data),
              IF p.cb = "raises"
                THEN Throws(q, CallbackExc(p.cb), "sec_except")
              ELSE IF p.size = 0
                THEN Throws(Says(q, "File compressed successfully", "sec_except"),
                            Exc("ZeroDivisionError", "division by zero", "none"),
                            "sec_except")
              ELSE Says(Says(q, "File compressed successfully", "sec_remove"),
                        "Compression ratio", "sec_remove"))

\* secure_file: os.remove(encrypted_file) after the two stages
SecureRemove(i) ==
  LET encrypted_file == run[i].path \o <<FLK>>
  IN  /\ At(i, "secure_file", "sec_remove")
      /\ IF Exists(fs, encrypted_file)
         THEN Step(i, RemoveFile(fs, encrypted_file), Goto(run[i], "returned"))
         ELSE Step(i, fs, Throws(run[i], RemoveExc, "sec_except"))

\* secure_file, except clause: os.path.exists(encrypted_file)
SecureExcept(i) ==
  /\ At(i, "secure_file", "sec_except")
  /\ Step(i, fs,
          IF Exists(fs, run[i].path \o <<FLK>>)
          THEN Goto(run[i], "sec_cleanup")
          ELSE Wrapped(run[i], "Failed to secure file"))

\* secure_file, except clause: os.remove(encrypted_file), then the wrapper is
\* raised; a file that is gone by now makes os.remove raise instead
SecureCleanup(i) ==
  LET encrypted_file == run[i].path \o <<FLK>>
  IN  /\ At(i, "secure_file", "sec_cleanup")
      /\ IF Exists(fs, encrypted_file)
         THEN Step(i, RemoveFile(fs, encrypted_file),
                   Wrapped(run[i], "Failed to secure file"))
         ELSE Step(i, fs, Throws(run[i], RemoveExc, "raised"))

\* restore_file: the check of the suffix
RestoreStart(i) ==
  /\ At(i, "restore_file", "start")
  /\ Step(i, fs,
          IF ~EndsWith(run[i].path, FLC)
          THEN Throws(run[i], Exc("ValueError", SuffixMsg, "none"), "raised")
          ELSE Goto(run[i], "dec_read"))

\* decompress_file: the artifact is read, inflated and compared with its hash
DecRead(i) ==
  /\ At(i, "restore_file", "dec_read")
  /\ \E huff \in HuffChoices(fs, run[i].path) :
       LET data == fs[run[i].path]
           original_hash == Slice(data, 1, FlcHeaderLen)
           inflated == zlib_decompress(Slice(data, FlcHeaderLen, Len(data)),
                                       huff)
       IN  Step(i, fs,
                IF ~Exists(fs, run[i].path)
                  THEN Throws(run[i], MissingExc, "res_except")
                ELSE IF inflated.err
                  THEN Throws(run[i],
                              Exc("ValueError", "Failed to decompress data",
                                  "zlib.error"), "res_except")
                ELSE IF sha256(inflated.out) # original_hash
                  THEN Throws(run[i],
                              Exc("ValueError",
                                  "File integrity check failed. The file may be corrupted.",
                                  "none"), "res_except")
                ELSE [run[i] EXCEPT !.pc = "dec_write",
                                    !.data = inflated.out])

\* decompress_file: the decompressed file is written and the callback invoked
DecWrite(i) ==
  LET p == run[i]
      output_file_path == WithSuffixEmpty(p.path)
      q == [Wrote(p, output_file_path) EXCEPT
              !.cbs = CallbackCalls(p.cb, Len(p.data), Len(p.data))]
  IN  /\ At(i, "restore_file", "dec_write")
      /\ Step(i, WriteFile(fs, output_file_path, p.data),
              IF p.cb = "raises"
              THEN Throws(q, CallbackExc(p.cb), "res_except")
              ELSE Says(q, "File decompressed successfully", "dcr_exists"))

\* decrypt_file: the check of the suffix and os.path.exists(decrypted_file_path)
DcrExists(i) ==
  LET file_path == DropLast4(run[i].path)
  IN  /\ At(i, "restore_file", "dcr_exists")
      /\ Step(i, fs,
              IF ~EndsWith(file_path, FLK)
                THEN Says(run[i],
                          "Error: File does not have the .flk extension.",
                          "res_remove")
              ELSE IF Exists(fs, ReplaceFlk(file_path))
                THEN Says(run[i], "Error: File already exists.", "res_remove")
              ELSE Goto(run[i], "dcr_read"))

\* decrypt_file: the container is read, decrypted, unpadded and compared with
\* its hash
DcrRead(i) ==
  LET file_path == DropLast4(run[i].path)
      data == fs[file_path]
      salt == Slice(data, 0, SaltLen)
      iv == Slice(data, SaltLen, SaltLen + IvLen)
      hash_stored == Slice(data, SaltLen + IvLen, HeaderLen)
      encrypted_data == Slice(data, HeaderLen, Len(data))
      decrypted_data ==
        cbc_decrypt(derive_key(run[i].password, salt), iv, encrypted_data)
  IN  /\ At(i, "restore_file", "dcr_read")
      /\ Step(i, fs,
              IF ~Exists(fs, file_path)
                THEN Says(run[i], "Error: File not found", "res_remove")
              ELSE IF ~CipherAccepts(iv, encrypted_data)
                      \/ ~UnpadOk(decrypted_data)
                THEN Says(run[i], "Error: Invalid padding or corrupted data",
                          "res_remove")
              ELSE IF hash_stored # sha256(unpad(decrypted_data))
                THEN Goto(run[i], "dcr_mismatch")
              ELSE [run[i] EXCEPT !.pc = "dcr_write",
                                  !.data = unpad(decrypted_data)])

\* decrypt_file, hash mismatch: the destination is removed if it exists (the
\* test and the removal are one step here)
DcrMismatch(i) ==
  LET decrypted_file_path == ReplaceFlk(DropLast4(run[i].path))
  IN  /\ At(i, "restore_file", "dcr_mismatch")
      /\ Step(i,
              IF Exists(fs, decrypted_file_path)
              THEN RemoveFile(fs, decrypted_file_path) ELSE fs,
              Says(run[i],
                   "Error: Integrity check failed - file tampered or wrong password",
                   "res_remove"))

\* decrypt_file: the plaintext is written
DcrWrite(i) ==
  LET decrypted_file_path == ReplaceFlk(DropLast4(run[i].path))
  IN  /\ At(i, "restore_file", "dcr_write")
      /\ Step(i, WriteFile(fs, decrypted_file_path, run[i].data),
              Wrote(Says(run[i], "File decrypted successfully", "res_remove"),
                    decrypted_file_path))

\* restore_file: os.remove(decompressed_file) after the two stages
RestoreRemove(i) ==
  LET decompressed_file == DropLast4(run[i].path)
  IN  /\ At(i, "restore_file", "res_remove")
      /\ IF Exists(fs, decompressed_file)
         THEN Step(i, RemoveFile(fs, decompressed_file),
                   Goto(run[i], "returned"))
         ELSE Step(i, fs, Throws(run[i], RemoveExc, "res_except"))

\* restore_file, except clause: os.path.exists(decompressed_file)
RestoreExcept(i) ==
  /\ At(i, "restore_file", "res_except")
  /\ Step(i, fs,
          IF Exists(fs, DropLast4(run[i].path))
          THEN Goto(run[i], "res_cleanup")
          ELSE Wrapped(run[i], "Failed to restore file"))

\* restore_file, except clause: os.remove(decompressed_file), then the wrapper
\* is raised; a file that is gone by now makes os.remove raise instead
RestoreCleanup(i) ==
  LET decompressed_file == DropLast4(run[i].path)
  IN  /\ At(i, "restore_file", "res_cleanup")
      /\ IF Exists(fs, decompressed_file)
         THEN Step(i, RemoveFile(fs, decompressed_file),
                   Wrapped(run[i], "Failed to restore file"))
         ELSE Step(i, fs, Throws(run[i], RemoveExc, "raised"))

NextConcurrent ==
  \E i \in Procs :
    \/ SecureStart(i)
    \/ EncExists(i)
    \/ EncRead(i)
    \/ EncWrite(i)
    \/ ComRead(i)
    \/ ComWrite(i)
    \/ SecureRemove(i)
    \/ SecureExcept(i)
    \/ SecureCleanup(i)
    \/ RestoreStart(i)
    \/ DecRead(i)
    \/ DecWrite(i)
    \/ DcrExists(i)
    \/ DcrRead(i)
    \/ DcrMismatch(i)
    \/ DcrWrite(i)
    \/ RestoreRemove(i)
    \/ RestoreExcept(i)
    \/ RestoreCleanup(i)

SpecConcurrent == InitConcurrent /\ [][NextConcurrent]_vars

(***************************************************************************)
(* secure_file and restore_file on a disk where the only file has the bare *)
(* name ".flc": a secured artifact that the user renamed, or a file that   *)
(* is no container.                                                        *)
(***************************************************************************)
BareNameDisks ==
  {[p \in {<<FLC>>} |-> Artifact(c)] : c \in Contents}
    \cup {[p \in {<<FLC>>} |-> <<5>>]}

InitBareName ==
  /\ fs \in BareNameDisks
  /\ made = UserMade(fs)
  /\ last = NoCall
  /\ calls = 0
  /\ envsteps = 0
  /\ run = NoRun

SpecBareName == InitBareName /\ [][NextMain]_vars

(***************************************************************************)
(* Properties.  last is the call that has just ended: its arguments, the   *)
(* disk before it (pre), the origin of the file it was given (input) and   *)
(* how it ended; fs is the disk after it.                                  *)
(***************************************************************************)
\* the file at path is as it was before the call: absent, or the same bytes
Untouched(path) ==
  IF Exists(last.pre, path)
  THEN Exists(fs, path) /\ fs[path] = last.pre[path]
  ELSE ~Exists(fs, path)

\* the last component of the path the call was given
LastSuffix == IF last.path = <<>> THEN "" ELSE last.path[Len(last.path)]

\* the file the call was given is the one its origin wrote, byte for byte
InputIntact == last.pre[last.path] = last.input.content

\* the file the call was given differs from what its origin wrote in bytes
\* at offset from on and nowhere else
InputChangedFrom(from) ==
  /\ last.pre[last.path] # last.input.content
  /\ Len(last.pre[last.path]) = Len(last.input.content)
  /\ Slice(last.pre[last.path], 0, from) = Slice(last.input.content, 0, from)

\* restore_file is called with the password of secure_file on the artifact
\* that a successful secure_file(F, W) wrote, F having been removed since;
\* the progress callback, if any, does not raise
RestoresSecured ==
  /\ last.op = "restore_file"
  /\ last.cb # "raises"
  /\ last.input.by = "secure_file"
  /\ last.input.ok
  /\ last.input.had
  /\ InputIntact
  /\ last.password = last.input.password
  /\ ~Exists(last.pre, last.input.src)

\* C1: after secure_file(F, W) succeeds and F is removed, restore_file with W
\* on the artifact secure_file wrote leaves F with its original bytes and no
\* intermediate ".flk" file.
C1_RoundTrip ==
  RestoresSecured =>
    /\ Exists(fs, last.input.src)
    /\ fs[last.input.src] = last.input.plain
    /\ ~Exists(fs, DropLast4(last.path))

\* restore_file returns normally on the artifact of secure_file("a.flk", W),
\* and "a.flk" is not back
C1_Witness ==
  /\ RestoresSecured
  /\ FLK \in Range(last.input.src)
  /\ last.exc = NoExc
  /\ ~Exists(fs, last.input.src)

\* C2: restore_file with a password other than the one secure_file was given
\* raises ValueError and writes no file at F.
C2_WrongPasswordRaises ==
  ( /\ last.op = "restore_file"
    /\ last.input.by = "secure_file"
    /\ last.input.ok
    /\ last.input.had
    /\ InputIntact
    /\ last.password # last.input.password )
  => /\ last.exc.type = "ValueError"
     /\ last.input.src \notin Range(last.wrote)

\* the wrong password reaches the cipher, F being absent, and restore_file
\* returns normally
C2_Witness ==
  /\ last.op = "restore_file"
  /\ last.input.by = "secure_file"
  /\ last.input.ok
  /\ InputIntact
  /\ last.password # last.input.password
  /\ ~Exists(last.pre, last.input.src)
  /\ last.exc = NoExc
  /\ last.printed = <<"File decompressed successfully",
                      "Error: Invalid padding or corrupted data">>

\* decrypt_file is given a container that encrypt_file wrote and a password
\* other than the one encrypt_file was given
DecryptsWithWrongPassword ==
  /\ last.op = "decrypt_file"
  /\ last.input.by = "encrypt_file"
  /\ last.password # last.input.password

\* C3: decrypt_file with a password other than the one encrypt_file was given
\* writes nothing: no file is created, changed or removed, and the ".flk"
\* container stays.
C3_WrongPasswordWritesNothing ==
  DecryptsWithWrongPassword =>
    /\ fs = last.pre
    /\ last.wrote = <<>>
    /\ Exists(fs, last.path)

\* the wrong password has reached the cipher, with the destination free
C3_Witness ==
  /\ DecryptsWithWrongPassword
  /\ InputIntact
  /\ ~Exists(last.pre, ReplaceFlk(last.path))
  /\ last.printed = <<"Error: Invalid padding or corrupted data">>
  /\ fs = last.pre

\* decrypt_file is given, with the right password, a container of
\* encrypt_file in which bytes of the ciphertext (offset 64 on) were changed
DecryptsTampered ==
  /\ last.op = "decrypt_file"
  /\ last.input.by = "encrypt_file"
  /\ last.password = last.input.password
  /\ InputChangedFrom(HeaderLen)

DecompressesTampered ==
  /\ last.op = "decompress_file"
  /\ last.input.by = "compress_file"
  /\ InputChangedFrom(FlcHeaderLen)

\* C5, as stated: when a byte of the compressed payload was changed,
\* decompress_file raises ValueError and the target is neither created nor
\* overwritten.
C5_TamperedPayloadRaises ==
  DecompressesTampered =>
    /\ last.exc.type = "ValueError"
    /\ last.wrote = <<>>
    /\ Untouched(WithSuffixEmpty(last.path))

\* C5, amended: when a byte of the compressed payload was changed,
\* decompress_file either raises ValueError and writes nothing, or the
\* changed stream still inflates to the bytes that were compressed and the
\* target is written with exactly those bytes.
C5_TamperedPayloadNeverWritesOtherBytes ==
  DecompressesTampered =>
    \/ /\ last.exc.type = "ValueError"
       /\ last.wrote = <<>>
       /\ fs = last.pre
    \/ /\ last.exc.type # "ValueError"
       /\ last.wrote = <<WithSuffixEmpty(last.path)>>
       /\ fs[WithSuffixEmpty(last.path)] = last.input.plain

\* a change of the payload that zlib does not notice: the call returns and
\* the target holds the original bytes again
C5_Witness ==
  /\ DecompressesTampered
  /\ last.exc = NoExc
  /\ ~Exists(last.pre, WithSuffixEmpty(last.path))
  /\ fs[WithSuffixEmpty(last.path)] = last.input.plain

\* C6: once secure_file or restore_file has accepted its arguments,
\* it ends, returning or raising, with its intermediate file (the input path
\* plus ".flk", the input path without ".flc") absent from the disk.
C6_IntermediateCleanup ==
  /\ (last.op = "secure_file" /\ last.level \in 1..9)
       => ~Exists(fs, last.path \o <<FLK>>)
  /\ (last.op = "restore_file" /\ LastSuffix = FLC)
       => ~Exists(fs, SubSeq(last.path, 1, Len(last.path) - 1))

\* secure_file fails after it has written the intermediate file
C6_Witness ==
  /\ last.op = "secure_file"
  /\ last.exc.type = "ValueError"
  /\ last.exc.cause = "CallbackError"
  /\ (last.path \o <<FLK>>) \in Range(last.wrote)
  /\ ~Exists(fs, last.path \o <<FLK>>)

\* the call ended in ValueError(msg) raised by the function itself, having
\* written, removed, printed and reported nothing
RejectedWith(msg) ==
  /\ last.exc = Exc("ValueError", msg, "none")
  /\ fs = last.pre
  /\ last.wrote = <<>>
  /\ last.printed = <<>>
  /\ last.cbs = <<>>

\* C7: compress_file and secure_file with a level outside 1..9 raise
\* ValueError "Compression level must be between 1 and 9" and touch no file.
C7_LevelValidation ==
  ( /\ last.op \in {"compress_file", "secure_file"}
    /\ last.level \notin 1..9 )
  => RejectedWith(LevelMsg)

\* level 10 on a file that exists, with a callback that would raise
C7_Witness ==
  /\ last.op = "secure_file"
  /\ last.level = 10
  /\ last.cb = "raises"
  /\ Exists(last.pre, last.path)
  /\ RejectedWith(LevelMsg)

\* C8: restore_file and decompress_file with a path that does not end in
\* ".flc" raise ValueError "File must have .flc extension" and touch no file.
C8_SuffixValidation ==
  ( /\ last.op \in {"restore_file", "decompress_file"}
    /\ LastSuffix # FLC )
  => RejectedWith(SuffixMsg)

\* a file that exists and ends in ".flk" is given to restore_file
C8_Witness ==
  /\ last.op = "restore_file"
  /\ Exists(last.pre, last.path)
  /\ LastSuffix = FLK
  /\ RejectedWith(SuffixMsg)

\* C9: after secure_file(F, W) returns normally for an existing file F, a
\* file exists at F plus ".flc".
C9_ArtifactAtPathPlusFlc ==
  ( /\ last.op = "secure_file"
    /\ last.exc = NoExc
    /\ Exists(last.pre, last.path) )
  => Exists(fs, last.path \o <<FLC>>)

\* secure_file has returned normally and its artifact is at F plus ".flk.flc"
C9_Witness ==
  /\ last.op = "secure_file"
  /\ last.exc = NoExc
  /\ Exists(last.pre, last.path)
  /\ Exists(fs, last.path \o <<FLK, FLC>>)
  /\ ~Exists(fs, last.path \o <<FLC>>)

\* C10: after secure_file(F, W) returns or raises, F still exists with the
\* bytes it had before the call.
C10_InputUntouched ==
  (last.op = "secure_file" /\ Exists(last.pre, last.path))
    => Untouched(last.path)

\* secure_file has encrypted and compressed a file that exists
C10_Witness ==
  /\ last.op = "secure_file"
  /\ Exists(last.pre, last.path)
  /\ last.exc = NoExc
  /\ last.wrote = <<last.path \o <<FLK>>, last.path \o <<FLK, FLC>> >>
  /\ Untouched(last.path)

\* decrypt_file is given, with the password of encrypt_file, the container
\* that encrypt_file wrote, unchanged, and its destination is free
DecryptsOwnContainer ==
  /\ last.op = "decrypt_file"
  /\ last.input.by = "encrypt_file"
  /\ InputIntact
  /\ last.password = last.input.password
  /\ ~Exists(last.pre, ReplaceFlk(last.path))

\* C11: decrypt_file with password W on the container that encrypt_file wrote
\* for a file of bytes P under W (P may be empty) returns normally and writes
\* exactly P.
C11_CryptoRoundTrip ==
  DecryptsOwnContainer =>
    /\ last.exc = NoExc
    /\ last.wrote = <<ReplaceFlk(last.path)>>
    /\ fs[ReplaceFlk(last.path)] = last.input.plain

\* the container of the empty file is decrypted to the empty file
C11_Witness ==
  /\ DecryptsOwnContainer
  /\ last.input.plain = <<>>
  /\ Len(last.pre[last.path]) = HeaderLen + BlockSize
  /\ last.printed = <<"File decrypted successfully">>
  /\ fs[ReplaceFlk(last.path)] = <<>>

\* compress_file is given a level in 1..9, a file that exists and no callback
\* that raises
CompressesFile ==
  /\ last.op = "compress_file"
  /\ last.level \in 1..9
  /\ last.cb # "raises"
  /\ Exists(last.pre, last.path)

\* decompress_file is given the container that compress_file wrote,
\* unchanged, and no callback that raises
DecompressesOwnContainer ==
  /\ last.op = "decompress_file"
  /\ last.cb # "raises"
  /\ last.input.by = "compress_file"
  /\ InputIntact

\* C12: compress_file at a level in 1..9 on a file of bytes P returns
\* normally, and decompress_file on the container it wrote returns normally
\* and leaves a file with exactly the bytes P.
C12_CompressionRoundTrip ==
  /\ CompressesFile => last.exc = NoExc
  /\ DecompressesOwnContainer =>
       /\ last.exc = NoExc
       /\ fs[WithSuffixEmpty(last.path)] = last.input.plain

\* compress_file has written the container of an empty file, reported it to
\* the callback, and ends in ZeroDivisionError
C12_Witness ==
  /\ CompressesFile
  /\ last.cb = "records"
  /\ last.pre[last.path] = <<>>
  /\ last.wrote = <<last.path \o <<FLC>> >>
  /\ Len(last.cbs) = 1
  /\ last.cbs[1][2] = 0
  /\ last.exc.type = "ZeroDivisionError"

\* C13: compress_file on a file of length zero returns normally and reports
\* a compression ratio.
C13_EmptyInputCompresses ==
  (CompressesFile /\ last.pre[last.path] = <<>>) =>
    /\ last.exc = NoExc
    /\ last.printed = <<"File compressed successfully", "Compression ratio">>

\* compress_file on an empty file prints its first line and then divides by
\* the length of the data
C13_Witness ==
  /\ CompressesFile
  /\ last.cb = "none"
  /\ last.pre[last.path] = <<>>
  /\ Exists(fs, last.path \o <<FLC>>)
  /\ last.printed = <<"File compressed successfully">>
  /\ last.exc = Exc("ZeroDivisionError", "division by zero", "none")

\* the lines encrypt_file and decrypt_file print when they give up
ErrorLines ==
  {"Error: File already exists.",
   "Error: File not found",
   "Error: File does not have the .flk extension.",
   "Error: Invalid padding or corrupted data",
   "Error: Integrity check failed - file tampered or wrong password"}

\* a stage of the call that has just ended gave up
StageGaveUp == Range(last.printed) \cap ErrorLines # {}

\* C14: secure_file and restore_file do not return normally after a stage
\* failed: when restore_file returns, that call has written the restored
\* file; when secure_file returns, that call has written the artifact.
C14_NoSilentFailure ==
  /\ (last.op = "restore_file" /\ last.exc = NoExc) =>
       /\ ~StageGaveUp
       /\ Len(last.wrote) = 2
       /\ last.wrote[2] = ReplaceFlk(DropLast4(last.path))
       /\ Exists(fs, last.wrote[2])
  /\ (last.op = "secure_file" /\ last.exc = NoExc) =>
       /\ ~StageGaveUp
       /\ (last.path \o <<FLK, FLC>>) \in Range(last.wrote)
       /\ Exists(fs, last.path \o <<FLK, FLC>>)

\* restore_file is given the right password while the destination exists:
\* decrypt_file gives up, restore_file removes the intermediate file and
\* returns normally, having restored nothing
C14_Witness ==
  /\ last.op = "restore_file"
  /\ last.input.by = "secure_file"
  /\ last.password = last.input.password
  /\ last.exc = NoExc
  /\ last.printed = <<"File decompressed successfully",
                      "Error: File already exists.">>
  /\ last.wrote = <<DropLast4(last.path)>>
  /\ ~Exists(fs, DropLast4(last.path))

\* the call that has just ended is secure_file or restore_file past the check
\* of its arguments, and one of its stages failed: it gave up or it raised
OrchestratorStageFailed ==
  /\ \/ last.op = "secure_file" /\ last.level \in 1..9
     \/ last.op = "restore_file" /\ LastSuffix = FLC
  /\ (StageGaveUp \/ last.exc # NoExc)

\* the message of the wrapper error of the call that has just ended
WrapperMsg ==
  IF last.op = "secure_file" THEN "Failed to secure file"
  ELSE "Failed to restore file"

\* C15: when a stage of secure_file or restore_file fails, past the check of
\* the arguments, the caller receives ValueError "Failed to secure file" or
\* "Failed to restore file" with the stage's exception as its cause; these
\* functions raise nothing but ValueError.
C15_FailureWrapping ==
  /\ OrchestratorStageFailed =>
       /\ last.exc.type = "ValueError"
       /\ last.exc.msg = WrapperMsg
       /\ last.exc.cause # "none"
  /\ last.op \in {"secure_file", "restore_file"} =>
       last.exc.type \in {"none", "ValueError"}

\* encrypt_file gives up on a file whose ".flk" neighbour exists, and
\* secure_file returns normally
C15_Witness ==
  /\ last.op = "secure_file"
  /\ last.level \in 1..9
  /\ Exists(last.pre, last.path)
  /\ Exists(last.pre, last.path \o <<FLK>>)
  /\ last.printed[1] = "Error: File already exists."
  /\ last.exc = NoExc

\* the functions of filelock.py and compression.py
LowLevel ==
  {"encrypt_file", "decrypt_file", "compress_file", "decompress_file"}

\* C16: encrypt_file, decrypt_file, compress_file and decompress_file never
\* print an error and return: a call of one of them that detects a failure
\* (and so writes no file) raises an error.
C16_LowLevelRaises ==
  last.op \in LowLevel =>
    /\ ~StageGaveUp
    /\ last.wrote = <<>> => last.exc # NoExc

\* encrypt_file is given a path at which no file exists: it prints and returns
C16_Witness ==
  /\ last.op = "encrypt_file"
  /\ ~Exists(last.pre, last.path)
  /\ ~Exists(last.pre, last.path \o <<FLK>>)
  /\ last.printed = <<"Error: File not found">>
  /\ last.exc = NoExc
  /\ fs = last.pre

\* C17: after secure_file(F, W, L) returns normally, the artifact is the
\* compression container, at level L, of a crypto container under W of the
\* bytes that F had when secure_file was called.
C17_SecuredFormat ==
  (last.op = "secure_file" /\ last.exc = NoExc) =>
    /\ Exists(last.pre, last.path)
    /\ Exists(fs, last.path \o <<FLK, FLC>>)
    /\ \E rnd \in Randoms :
         fs[last.path \o <<FLK, FLC>>] =
           CompressionContainer(
             CryptoContainer(last.pre[last.path], last.password,
                             rnd[1], rnd[2]),
             last.level)

\* secure_file returns normally and its artifact holds the bytes of the older
\* ".flk" file, which are no crypto container of F
C17_Witness ==
  /\ last.op = "secure_file"
  /\ last.exc = NoExc
  /\ Exists(last.pre, last.path)
  /\ Exists(last.pre, last.path \o <<FLK>>)
  /\ last.pre[last.path \o <<FLK>>] = <<5>>
  /\ fs[last.path \o <<FLK, FLC>>] = CompressionContainer(<<5>>, last.level)

\* the progress callback was invoked during secure_file or restore_file and
\* raised
CallbackRaised ==
  /\ last.op \in {"secure_file", "restore_file"}
  /\ last.cb = "raises"
  /\ last.cbs # <<>>

\* the file between the two stages of the call that has just ended
Intermediate ==
  IF last.op = "secure_file" THEN last.path \o <<FLK>>
  ELSE SubSeq(last.path, 1, Len(last.path) - 1)

\* C19: when the progress callback raises during secure_file or restore_file,
\* the call ends there with the wrapper ValueError, which has a cause, and the
\* intermediate file is not on the disk.
C19_CallbackFailureAborts ==
  CallbackRaised =>
    /\ last.exc.type = "ValueError"
    /\ last.exc.msg = WrapperMsg
    /\ last.exc.cause # "none"
    /\ Len(last.cbs) = 1
    /\ ~Exists(fs, Intermediate)
    /\ last.op = "restore_file" =>
         (last.wrote = <<Intermediate>> /\ last.printed = <<>>)

\* the callback raises after decompress_file wrote the intermediate file:
\* restore_file removes it, does not decrypt and raises
C19_Witness ==
  /\ CallbackRaised
  /\ last.op = "restore_file"
  /\ last.input.by = "secure_file"
  /\ last.wrote = <<Intermediate>>
  /\ ~Exists(fs, Intermediate)
  /\ last.exc.cause = "CallbackError"

\* what the invocation p does when it runs alone on the disk it was started on
AloneResult(p) ==
  IF p.op = "secure_file"
  THEN secure_file(p.pre, p.path, p.password, p.level, p.cb,
                   RunRandom[1], RunRandom[2])
  ELSE restore_file(p.pre, p.path, p.password, p.cb, "error")

\* the paths an invocation may read, write or remove: for secure_file(F) the
\* input, the intermediate file and the artifact; for restore_file(G) the
\* artifact, the intermediate file and the destination; none for a call that
\* is refused for its arguments
Files(p) ==
  IF p.op = "secure_file"
  THEN IF p.level \in 1..9
       THEN {p.path, p.path \o <<FLK>>, p.path \o <<FLK, FLC>>}
       ELSE {}
  ELSE IF LastSuffixOf(p.path) # FLC THEN {}
  ELSE {p.path, DropLast4(p.path), WithSuffixEmpty(p.path),
        ReplaceFlk(DropLast4(p.path))}

\* invocation i, once it has ended, has the outcome it has when it runs
\* alone, and at its end its files are as it leaves them when it runs alone
SameAsAlone(i) ==
  LET p == run[i]
      r == AloneResult(p)
  IN  p.pc \in Terminal =>
        /\ p.exc = r.exc
        /\ p.printed = r.printed
        /\ p.wrote = r.wrote
        /\ p.cbs = r.cbs
        /\ \A q \in Files(p) :
             /\ Exists(p.post, q) = Exists(r.fs, q)
             /\ Exists(p.post, q) => p.post[q] = r.fs[q]

\* C18, as stated: two invocations of secure_file and restore_file that run
\* at the same time on distinct input paths each end with the outcome and
\* the files they have when they run alone.
C18_DistinctInputsIndependent ==
  run[1].path # run[2].path => \A i \in Procs : SameAsAlone(i)

\* C18, amended: two invocations that run at the same time and share none of
\* their files (input, intermediate file, artifact, destination) each end
\* with the outcome and the files they have when they run alone.
C18_DisjointFilesIndependent ==
  Files(run[1]) \cap Files(run[2]) = {} => \A i \in Procs : SameAsAlone(i)

\* secure_file("a") and restore_file("b.flk.flc") have both returned, each
\* having written its two files
C18_Witness ==
  /\ Files(run[1]) \cap Files(run[2]) = {}
  /\ run[1].op = "secure_file"
  /\ run[2].op = "restore_file"
  /\ \A i \in Procs : run[i].pc = "returned" /\ Len(run[i].wrote) = 2
  /\ Exists(fs, run[1].path \o <<FLK, FLC>>)
  /\ Exists(fs, ReplaceFlk(DropLast4(run[2].path)))

\* C20: in secure_file the compression stage starts only after the
\* encryption stage wrote the intermediate file in this call; in restore_file
\* the decryption stage starts only after decompression wrote the
\* intermediate file, and the removal on the success path happens only after
\* decryption wrote the destination; a stage that gave up is followed by the
\* except clause.
C20_StageOrdering ==
  \A i \in Procs :
    LET p == run[i]
    IN  /\ (p.op = "secure_file" /\ p.pc \in {"com_read", "com_write"}) =>
             (p.path \o <<FLK>>) \in Range(p.wrote)
        /\ ( /\ p.op = "restore_file"
             /\ p.pc \in {"dcr_exists", "dcr_read", "dcr_mismatch",
                           "dcr_write"} ) =>
             WithSuffixEmpty(p.path) \in Range(p.wrote)
        /\ (p.op = "restore_file" /\ p.pc = "res_remove") =>
             Len(p.wrote) = 2
        /\ Range(p.printed) \cap ErrorLines # {} =>
             p.pc \in {"sec_except", "sec_cleanup", "res_except",
                       "res_cleanup", "raised"}

\* while the other invocation has not started, encrypt_file gives up on an
\* existing ".flk" file and compress_file is about to write the artifact
C20_Witness ==
  /\ run[2].pc = "start"
  /\ run[1].op = "secure_file"
  /\ run[1].pc = "com_write"
  /\ run[1].printed = <<"Error: File already exists.">>
  /\ run[1].wrote = <<>>

\* decrypt_file is given a file that is shorter than the header of a
\* container (salt, iv, hash), at a path with the suffix ".flk" whose
\* destination is free
DecryptsShortContainer ==
  /\ last.op = "decrypt_file"
  /\ EndsWith(last.path, FLK)
  /\ Exists(last.pre, last.path)
  /\ Len(last.pre[last.path]) < HeaderLen
  /\ ~Exists(last.pre, ReplaceFlk(last.path))

\* C21: decrypt_file on a container shorter than 64 bytes fails with an
\* error that reaches the caller, and writes no file.
C21_ShortContainerRejected ==
  DecryptsShortContainer =>
    /\ last.exc # NoExc
    /\ last.wrote = <<>>
    /\ fs = last.pre

\* the one-byte file at "a.flk" is given to decrypt_file after "a" was
\* removed: the call prints and returns, and the disk is as before
C21_Witness ==
  /\ DecryptsShortContainer
  /\ last.exc = NoExc
  /\ last.printed = <<"Error: Invalid padding or corrupted data">>
  /\ last.wrote = <<>>
  /\ fs = last.pre

\* the functions of compression.py
CompressionCalls == {"compress_file", "decompress_file"}

SecuresNextToOldFlk ==
  /\ last.op = "secure_file"
  /\ Exists(last.pre, last.path \o <<FLK>>)

\* C23: secure_file leaves a file that existed at its input path plus ".flk"
\* before the call in place with the same bytes, and does not compress it.
C23_OldFlkKept ==
  SecuresNextToOldFlk =>
    /\ Untouched(last.path \o <<FLK>>)
    /\ last.path \o <<FLK, FLC>> \notin Range(last.wrote)

\* secure_file("a") next to the user's older "a.flk" returns normally: the
\* older file is gone and the artifact is the compression container of its
\* bytes
C23_Witness ==
  /\ SecuresNextToOldFlk
  /\ Exists(last.pre, last.path)
  /\ last.input.by = "user"
  /\ last.exc = NoExc
  /\ ~Exists(fs, last.path \o <<FLK>>)
  /\ Exists(fs, last.path \o <<FLK, FLC>>)
  /\ made[last.path \o <<FLK, FLC>>].by = "secure_file"
  /\ fs[last.path \o <<FLK, FLC>>] =
       CompressionContainer(last.pre[last.path \o <<FLK>>], last.level)

\* C24: restore_file neither overwrites nor deletes a file that existed
\* before the call: every such file, the one at the intermediate path and
\* the one at the destination among them, has the same bytes when the call
\* has returned or raised.
C24_RestoreKeepsOldFiles ==
  last.op = "restore_file" =>
    \A p \in DOMAIN last.pre : Untouched(p)

\* restore_file is given a path with the suffix ".flc" at which no file
\* exists, next to a file of the user at that path without the suffix: it
\* raises, and the user's file is gone
C24_Witness ==
  /\ last.op = "restore_file"
  /\ EndsWith(last.path, FLC)
  /\ ~Exists(last.pre, last.path)
  /\ Exists(last.pre, DropLast4(last.path))
  /\ last.exc = Exc("ValueError", "Failed to restore file", "FileNotFoundError")
  /\ ~Exists(fs, DropLast4(last.path))

\* C25: decrypt_file on a path with the suffix ".flk" writes to the path
\* without that one trailing suffix and to no other, also when ".flk" occurs
\* elsewhere in the path, and it refuses the call when a file exists there.
C25_DestinationDropsOneSuffix ==
  (last.op = "decrypt_file" /\ EndsWith(last.path, FLK)) =>
    /\ Range(last.wrote) \subseteq {DropLast4(last.path)}
    /\ Exists(last.pre, DropLast4(last.path)) => last.wrote = <<>>

\* decrypt_file is given the container "a.flk.flk" that encrypt_file made of
\* the file "a.flk", with its password: it writes the plaintext to "a"
C25_Witness ==
  /\ last.op = "decrypt_file"
  /\ last.input.by = "encrypt_file"
  /\ EndsWith(last.input.src, FLK)
  /\ last.path = last.input.src \o <<FLK>>
  /\ last.password = last.input.password
  /\ InputIntact
  /\ last.wrote = <<ReplaceFlk(last.path)>>
  /\ ReplaceFlk(last.path) # last.input.src
  /\ fs[ReplaceFlk(last.path)] = last.input.plain

\* the files with the suffix ".flc" that the call wrote and that are on disk
FlcLeftBehind ==
  {p \in Range(last.wrote) : EndsWith(p, FLC) /\ Exists(fs, p)}

\* C26: when secure_file raises, no artifact that the call wrote is on disk,
\* and when compress_file raises, no ".flc" file that the call wrote is on
\* disk.
C26_AllOrNothing ==
  (last.op \in {"secure_file", "compress_file"} /\ last.exc # NoExc) =>
    FlcLeftBehind = {}

\* secure_file raises the wrapper because the progress callback raised, and
\* the artifact that its compression stage wrote is on disk
C26_Witness ==
  /\ last.op = "secure_file"
  /\ last.cb = "raises"
  /\ last.exc = Exc("ValueError", "Failed to secure file", "CallbackError")
  /\ ~Exists(last.pre, last.path \o <<FLK, FLC>>)
  /\ FlcLeftBehind = {last.path \o <<FLK, FLC>>}
  /\ ~Exists(fs, last.path \o <<FLK>>)

\* the compression stage of the secure_file call has written the artifact
SecureCompressed ==
  /\ last.op = "secure_file"
  /\ last.path \o <<FLK, FLC>> \in Range(last.wrote)

\* the bytes that the compression stage read at the input path plus ".flk":
\* the older file when there was one (encrypt_file then writes nothing),
\* the container that encrypt_file wrote otherwise
CompressionInput ==
  IF Exists(last.pre, last.path \o <<FLK>>)
  THEN last.pre[last.path \o <<FLK>>]
  ELSE LET rnd == CHOOSE r \in Randoms : TRUE
       IN  CryptoContainer(last.pre[last.path], last.password, rnd[1], rnd[2])

\* C27: the file that the compression stage of secure_file compresses is a
\* crypto container of 64 bytes plus a positive multiple of 16, never an
\* empty file, and secure_file never fails with a division by zero.
C27_CompressionInputIsContainer ==
  /\ SecureCompressed =>
       /\ Len(CompressionInput) >= HeaderLen + BlockSize
       /\ (Len(CompressionInput) - HeaderLen) % BlockSize = 0
  /\ last.op = "secure_file" => last.exc.cause # "ZeroDivisionError"

\* secure_file("a") next to an older, empty "a.flk": the compression stage
\* writes the container of no bytes and divides by zero, the older file is
\* removed and secure_file raises the wrapper
C27_Witness ==
  /\ SecureCompressed
  /\ Exists(last.pre, last.path)
  /\ Exists(last.pre, last.path \o <<FLK>>)
  /\ CompressionInput = <<>>
  /\ fs[last.path \o <<FLK, FLC>>] = CompressionContainer(<<>>, last.level)
  /\ last.exc = Exc("ValueError", "Failed to secure file", "ZeroDivisionError")
  /\ ~Exists(fs, last.path \o <<FLK>>)

\* C28: every invocation of the progress callback by compress_file,
\* decompress_file, secure_file or restore_file has arguments (done, total)
\* with 0 <= done <= total.
C28_DoneWithinTotal ==
  \A i \in 1..Len(last.cbs) :
    /\ 0 <= last.cbs[i][1]
    /\ last.cbs[i][1] <= last.cbs[i][2]

\* secure_file of a user's file, with a callback that records, returns
\* normally: the callback got the size of the deflate stream as done and
\* the size of the crypto container as total, and done is the larger
C28_Witness ==
  /\ last.op = "secure_file"
  /\ last.cb = "records"
  /\ last.exc = NoExc
  /\ ~Exists(last.pre, last.path \o <<FLK>>)
  /\ Len(last.cbs) = 1
  /\ last.cbs[1][2] = Len(CompressionInput)
  /\ last.cbs[1][1] = Len(fs[last.path \o <<FLK, FLC>>]) - FlcHeaderLen
  /\ last.cbs[1][1] > last.cbs[1][2]

\* encrypt_file is given a file next to which a file exists at its path plus
\* ".flk", or decrypt_file is given a file with the suffix ".flk" whose
\* destination exists
CryptoOutputExists ==
  \/ /\ last.op = "encrypt_file"
     /\ Exists(last.pre, last.path \o <<FLK>>)
  \/ /\ last.op = "decrypt_file"
     /\ EndsWith(last.path, FLK)
     /\ Exists(last.pre, ReplaceFlk(last.path))

RestoresExistingFile ==
  /\ last.op = "restore_file"
  /\ Exists(last.pre, last.path)

\* C30: restore_file neither modifies nor deletes the file it is given:
\* when it has returned or raised, the file is on disk with the same bytes.
C30_RestoreKeepsInput ==
  RestoresExistingFile =>
    /\ Exists(fs, last.path)
    /\ fs[last.path] = last.pre[last.path]

\* restore_file is given an artifact whose file name is ".flc": its
\* decompression stage writes the crypto container over the artifact, the
\* call raises, and the artifact is no longer what it was
C30_Witness ==
  /\ RestoresExistingFile
  /\ last.path = <<FLC>>
  /\ last.wrote = << <<FLC>> >>
  /\ last.exc = Exc("ValueError", "Failed to restore file", "FileNotFoundError")
  /\ \E c \in Contents :
       /\ last.pre[last.path] = Artifact(c)
       /\ fs[last.path] = CryptoContainer(c, RunPassword, RunRandom[1],
                                          RunRandom[2])

====
